---- MODULE Spec2Model ----
(***************************************************************************)
(* The von Mises distribution of src/distribution/von_mises.rs:            *)
(* VonMises::new, Min::min, Max::max and Univariate::cdf.                  *)
(*                                                                         *)
(* f64 is modelled by a decimal floating-point format with an eight-digit  *)
(* mantissa, round-to-nearest-even, the IEEE special values NaN and        *)
(* +/-infinity and the overflow threshold of a double (f64::MAX).          *)
(* A finite value is m * 10^e with m = 0, or 10^7 <= |m| < 10^8.           *)
(***************************************************************************)
EXTENDS Integers, Sequences, FiniteSets, TLC

\* ------------------------------------------------------------------ f64

Limb == 10 ^ 4
MantLo == 10 ^ 7
MantHi == 10 ^ 8

NaN == [k |-> "nan", m |-> 0, e |-> 0]
Inf(s) == [k |-> "inf", m |-> s, e |-> 0]
Zero == [k |-> "fin", m |-> 0, e |-> 0]
Fin(m, e) == [k |-> "fin", m |-> m, e |-> e]

IsNaN(a) == a.k = "nan"
IsFinite(a) == a.k = "fin"
Abs(n) == IF n < 0 THEN -n ELSE n
Sgn(n) == IF n < 0 THEN -1 ELSE IF n > 0 THEN 1 ELSE 0

\* f64::MAX = 1.7976931348623157e308 and the smallest normal double, 2.2e-308;
\* a result beyond the first is an infinity, one below the second is flushed to 0.
Overflows(m, e) == e > 301 \/ (e = 301 /\ m > 17976931)
Underflows(m, e) == e < -315

\* m with its last k >= 1 digits rounded away, to nearest, ties to even;
\* sticky says that non-zero digits were already dropped below m.
RoundTo(m, k, sticky) ==
  LET p == 10 ^ k
      q == m \div p
      r == m % p
      h == p \div 2
  IN IF r > h \/ (r = h /\ (sticky \/ (q % 2) = 1)) THEN q + 1 ELSE q

RangeChecked(s, m, e) ==
  IF Overflows(m, e) THEN Inf(s)
  ELSE IF Underflows(m, e) THEN Zero
  ELSE Fin(s * m, e)

\* The f64 nearest to s * m * 10^e, for a magnitude 0 <= m < 2^31.
RECURSIVE Pack(_, _, _, _)
Pack(s, m, e, sticky) ==
  IF m = 0 THEN Zero
  ELSE IF m < MantLo THEN Pack(s, m * 10, e - 1, sticky)
  ELSE IF m < MantHi THEN RangeChecked(s, m, e)
  ELSE LET k == IF m >= 10 * MantHi THEN 2 ELSE 1
           q == RoundTo(m, k, sticky)
       IN IF q = MantHi THEN RangeChecked(s, MantLo, e + k + 1)
          ELSE RangeChecked(s, q, e + k)

FromInt(n) == Pack(Sgn(n), Abs(n), 0, FALSE)

Neg(a) == [a EXCEPT !.m = -a.m]

Mul(a, b) ==
  IF IsNaN(a) \/ IsNaN(b) THEN NaN
  ELSE IF a.k = "inf" \/ b.k = "inf"
       THEN IF a.m = 0 \/ b.m = 0 THEN NaN ELSE Inf(Sgn(a.m) * Sgn(b.m))
  ELSE IF a.m = 0 \/ b.m = 0 THEN Zero
  ELSE LET x == Abs(a.m)
           y == Abs(b.m)
           xh == x \div Limb
           xl == x % Limb
           yh == y \div Limb
           yl == y % Limb
           mid == (xh * yl) + (xl * yh) + ((xl * yl) \div Limb)
           hi == (xh * yh) + (mid \div Limb)               \* (x * y) div 10^8
           lo == ((mid % Limb) * Limb) + ((xl * yl) % Limb) \* (x * y) mod 10^8
           s == Sgn(a.m) * Sgn(b.m)
       IN IF hi >= MantLo
          THEN Pack(s, (hi * 10) + (lo \div MantLo), a.e + b.e + 7, (lo % MantLo) # 0)
          ELSE Pack(s, (hi * 100) + (lo \div (MantLo \div 10)), a.e + b.e + 6,
                    (lo % (MantLo \div 10)) # 0)

\* n further digits of the long division of r by y (r < y), appended to q.
RECURSIVE DivDigits(_, _, _, _)
DivDigits(q, r, y, n) ==
  IF n = 0 THEN <<q, r>>
  ELSE DivDigits((q * 10) + ((r * 10) \div y), (r * 10) % y, y, n - 1)

Div(a, b) ==
  IF IsNaN(a) \/ IsNaN(b) THEN NaN
  ELSE IF a.k = "inf"
       THEN IF b.k = "inf" THEN NaN
            ELSE Inf(Sgn(a.m) * (IF b.m < 0 THEN -1 ELSE 1))
  ELSE IF b.k = "inf" THEN Zero
  ELSE IF b.m = 0 THEN IF a.m = 0 THEN NaN ELSE Inf(Sgn(a.m))
  ELSE IF a.m = 0 THEN Zero
  ELSE LET x == Abs(a.m)
           y == Abs(b.m)
           q0 == x \div y
           n == IF q0 = 0 THEN 9 ELSE 8
           qr == DivDigits(q0, x % y, y, n)
       IN Pack(Sgn(a.m) * Sgn(b.m), qr[1], a.e - b.e - n, qr[2] # 0)

\* Addition of two finite non-zero values, hi the one of the larger exponent:
\* exact with one guard digit and a sticky flag.
AddFinite(hi, lo) ==
  LET k == hi.e - lo.e
  IN IF k >= 10 THEN hi
     ELSE LET A == hi.m * 10
              p == IF k >= 2 THEN 10 ^ (k - 1) ELSE 1
              bm == IF k = 0 THEN Abs(lo.m) * 10 ELSE Abs(lo.m) \div p
              sticky == k >= 2 /\ (Abs(lo.m) % p) # 0
              opp == Sgn(hi.m) # Sgn(lo.m)
              B == Sgn(lo.m) * (IF sticky /\ opp THEN bm + 1 ELSE bm)
              T == A + B
          IN Pack(Sgn(T), Abs(T), hi.e - 1, sticky)

Add(a, b) ==
  IF IsNaN(a) \/ IsNaN(b) THEN NaN
  ELSE IF a.k = "inf"
       THEN IF b.k = "inf" /\ b.m # a.m THEN NaN ELSE a
  ELSE IF b.k = "inf" THEN b
  ELSE IF a.m = 0 THEN b
  ELSE IF b.m = 0 THEN a
  ELSE IF a.e >= b.e THEN AddFinite(a, b) ELSE AddFinite(b, a)

Sub(a, b) == Add(a, Neg(b))

\* The comparisons of f64: every comparison with a NaN is false.
Lt(a, b) == ~IsNaN(a) /\ ~IsNaN(b) /\ a # b /\ Sub(a, b).m < 0
Le(a, b) == ~IsNaN(a) /\ ~IsNaN(b) /\ (a = b \/ Sub(a, b).m < 0)

One == FromInt(1)
Two == FromInt(2)
Half == Div(One, Two)

\* f64::consts::PI
PI == Fin(31415927, -7)

\* --------------------------------------------------------------- angles
\* The query points and locations are f64 values on the lattice of the
\* multiples of pi/8: such a value is kept as its lattice index u (the angle
\* u * pi/8), so that x - location and (j + 1) * d are exact, as they are to
\* within 1e-15 in the code; NaN and the infinities are kept as they are.

Ang(u) == [k |-> "fin", u |-> u]
AngNaN == [k |-> "nan", u |-> 0]
AngInf(s) == [k |-> "inf", u |-> s]

\* sin(i * pi/8) for i = 0..4, to eight digits.
SinQuarter ==
  << Zero, Fin(38268343, -8), Fin(70710678, -8), Fin(92387953, -8),
     Fin(10000000, -7) >>

\* pi, in lattice units.
HalfTurn == 2 * (Len(SinQuarter) - 1)

\* x - y of two angles (line 76).
AngSub(x, y) ==
  IF IsNaN(x) \/ IsNaN(y) THEN AngNaN
  ELSE IF x.k = "inf"
       THEN IF y.k = "inf" /\ y.u = x.u THEN AngNaN ELSE x
  ELSE IF y.k = "inf" THEN AngInf(-y.u)
  ELSE Ang(x.u - y.u)

\* -y and x + y of angles.
AngNeg(y) == IF y.k = "nan" THEN y ELSE [y EXCEPT !.u = -y.u]
AngAdd(x, y) == AngSub(x, AngNeg(y))

\* n as f64 * d, for an integer n >= 1 (line 85).
AngScale(n, d) == IF d.k = "fin" THEN Ang(n * d.u) ELSE d

\* f64::sin: odd, of period 2 pi, NaN at NaN and at the infinities.
Sin(a) ==
  IF a.k # "fin" THEN NaN
  ELSE LET r == a.u % (2 * HalfTurn)
           q == HalfTurn \div 2
       IN IF r <= q THEN SinQuarter[r + 1]
          ELSE IF r <= HalfTurn THEN SinQuarter[HalfTurn - r + 1]
          ELSE IF r <= HalfTurn + q THEN Neg(SinQuarter[r - HalfTurn + 1])
          ELSE Neg(SinQuarter[2 * HalfTurn - r + 1])

\* f64::cos, as sin(a + pi/2).
Cos(a) == IF a.k # "fin" THEN NaN ELSE Sin(Ang(a.u + (HalfTurn \div 2)))

\* The f64 an angle is, where the code adds it to other values (line 87).
ToF64(a) ==
  IF a.k = "nan" THEN NaN
  ELSE IF a.k = "inf" THEN Inf(a.u)
  ELSE Div(Mul(FromInt(a.u), PI), FromInt(HalfTurn))

\* ------------------------------------------------- the Bessel provider
\* rgsl::bessel (GSL): the modified Bessel functions I_n(x) of the first kind,
\* unscaled, to eight digits, for the concentrations the model uses.

BesselI_1 ==
  << Fin(12660659, -7), Fin(56515910, -8), Fin(13574767, -8), Fin(22168425, -9),
     Fin(27371202, -10), Fin(27146316, -11), Fin(22488661, -12), Fin(15992182, -13),
     Fin(99606240, -15), Fin(55183859, -16), Fin(27529480, -17), Fin(12489783, -18),
     Fin(51957612, -20), Fin(19956317, -21), Fin(71187901, -23), Fin(23704631, -24),
     Fin(74009003, -26), Fin(21749597, -27), Fin(60371446, -29), Fin(15876784, -30),
     Fin(39668360, -32), Fin(94397420, -34), Fin(21443369, -35), Fin(46594926, -37),
     Fin(97032349, -39), Fin(19399011, -40), Fin(37292514, -42), Fin(69037389, -44),
     Fin(12324312, -45), Fin(21242711, -47), Fin(35395006, -49), Fin(57074339, -51),
     Fin(89157552, -53), Fin(13505711, -54), Fin(19857169, -56), Fin(28361758, -58),
     Fin(39383941, -60), Fin(53212081, -62), Fin(70004089, -64), Fin(89734454, -66),
     Fin(11215097, -67), Fin(13674963, -69), Fin(16277465, -71), Fin(18924784, -73),
     Fin(21502722, -75), Fin(23889029, -77), Fin(25963334, -79), Fin(27617508, -81),
     Fin(28765180, -83), Fin(29349230, -85), Fin(29346353, -87), Fin(28768223, -89),
     Fin(27659244, -91), Fin(26091347, -93), Fin(24156622, -95), Fin(21958783, -97),
     Fin(19604521, -99), Fin(17195648, -101), Fin(14822752, -103), Fin(12560767, -105),
     Fin(10466591, -107), Fin(85786058, -110), Fin(69177877, -112), Fin(54899674, -114),
     Fin(42887793, -116), Fin(32988687, -118), Fin(24990017, -120), Fin(18648243, -122),
     Fin(13711213, -124), Fin(99351474, -127), Fin(70961769, -129), Fin(49970633, -131),
     Fin(34700178, -133), Fin(23766146, -135), Fin(16057483, -137), Fin(10704519, -139),
     Fin(70421461, -142), Fin(45726318, -144), Fin(29310553, -146), Fin(18550249, -148),
     Fin(11593459, -150), Fin(71561866, -153), Fin(43633681, -155), Fin(26284408, -157),
     Fin(15644933, -159), Fin(92025870, -162), Fin(53501625, -164), Fin(30747057, -166),
     Fin(17469361, -168), Fin(98139414, -171), Fin(54520232, -173), Fin(29955277, -175),
     Fin(16279566, -177), Fin(87522047, -180), Fin(46552977, -182), Fin(24500895, -184),
     Fin(12760540, -186), Fin(65774252, -189), Fin(33557427, -191), Fin(16947767, -193),
     Fin(84736740, -196) >>

BesselI_4 ==
  << Fin(11301922, -6), Fin(97594652, -7), Fin(64221894, -7), Fin(33372758, -7),
     Fin(14162757, -7), Fin(50472436, -8), Fin(15446480, -8), Fin(41329964, -9),
     Fin(98099276, -10), Fin(20902530, -10), Fin(40378896, -11), Fin(71308228, -12),
     Fin(11593708, -12), Fin(17459801, -13), Fin(24483753, -14), Fin(32117374, -15),
     Fin(39572198, -16), Fin(45961597, -17), Fin(50484077, -18), Fin(52592705, -19),
     Fin(52100734, -20), Fin(49197115, -21), Fin(44376356, -22), Fin(38312337, -23),
     Fin(31716789, -24), Fin(25219111, -25), Fin(19289977, -26), Fin(14214033, -27),
     Fin(10103337, -28), Fin(69360648, -30), Fin(46043189, -31), Fin(29586432, -32),
     Fin(18421987, -33), Fin(11125310, -34), Fin(65224453, -36), Fin(37153520, -37),
     Fin(20579220, -38), Fin(11092430, -39), Fin(58224460, -41), Fin(29782518, -42),
     Fin(14855111, -43), Fin(72296389, -45), Fin(34350930, -46), Fin(15943537, -47),
     Fin(72324795, -49), Fin(32082472, -50), Fin(13923187, -51), Fin(59142918, -53),
     Fin(24601112, -54), Fin(10024929, -55), Fin(40037005, -57), Fin(15677175, -58),
     Fin(60209561, -60), Fin(22688921, -61), Fin(83920164, -63), Fin(30476892, -64),
     Fin(10870998, -65), Fin(38097811, -67), Fin(13121855, -68), Fin(44430716, -70),
     Fin(14794087, -71), Fin(48454010, -73), Fin(15614351, -74), Fin(49520290, -76),
     Fin(15460239, -77), Fin(47525692, -79), Fin(14388721, -80), Fin(42913761, -82),
     Fin(12610952, -83), Fin(36523262, -85), Fin(10426832, -86), Fin(29348412, -88),
     Fin(81461418, -90), Fin(22301695, -91), Fin(60231471, -93), Fin(16050470, -94),
     Fin(42209247, -96), Fin(10956149, -97), Fin(28074476, -99), Fin(71029695, -101),
     Fin(17746476, -102), Fin(43792101, -104), Fin(10674730, -105), Fin(25707501, -107),
     Fin(61174082, -109), Fin(14386034, -110), Fin(33438026, -112), Fin(76828905, -114),
     Fin(17452206, -115), Fin(39198875, -117), Fin(87066108, -119), Fin(19126274, -120),
     Fin(41559437, -122), Fin(89334275, -124), Fin(18998786, -125), Fin(39979917, -127),
     Fin(83255746, -129), Fin(17158916, -130), Fin(35003770, -132), Fin(70686138, -134),
     Fin(14131633, -135) >>

BesselI_700 ==
  << Fin(15295933, 295), Fin(15285004, 295), Fin(15252262, 295), Fin(15197848, 295),
     Fin(15121995, 295), Fin(15025025, 295), Fin(14907352, 295), Fin(14769471, 295),
     Fin(14611962, 295), Fin(14435483, 295), Fin(14240764, 295), Fin(14028604, 295),
     Fin(13799865, 295), Fin(13555466, 295), Fin(13296376, 295), Fin(13023611, 295),
     Fin(12738222, 295), Fin(12441292, 295), Fin(12133930, 295), Fin(11817261, 295),
     Fin(11492422, 295), Fin(11160552, 295), Fin(10822789, 295), Fin(10480262, 295),
     Fin(10134086, 295), Fin(97853533, 294), Fin(94351319, 294), Fin(90844577, 294),
     Fin(87343309, 294), Fin(83857113, 294), Fin(80395148, 294), Fin(76966100, 294),
     Fin(73578151, 294), Fin(70238955, 294), Fin(66955621, 294), Fin(63734695, 294),
     Fin(60582151, 294), Fin(57503388, 294), Fin(54503222, 294), Fin(51585895, 294),
     Fin(48755079, 294), Fin(46013886, 294), Fin(43364881, 294), Fin(40810100, 294),
     Fin(38351069, 294), Fin(35988823, 294), Fin(33723934, 294), Fin(31556534, 294),
     Fin(29486343, 294), Fin(27512693, 294), Fin(25634565, 294), Fin(23850612, 294),
     Fin(22159191, 294), Fin(20558390, 294), Fin(19046063, 294), Fin(17619854, 294),
     Fin(16277229, 294), Fin(15015498, 294), Fin(13831848, 294), Fin(12723363, 294),
     Fin(11687052, 294), Fin(10719868, 294), Fin(98187322, 293), Fin(89805501, 293),
     Fin(82022332, 293), Fin(74807132, 293), Fin(68129579, 293), Fin(61959840, 293),
     Fin(56268695, 293), Fin(51027636, 293), Fin(46208961, 293), Fin(41785844, 293),
     Fin(37732404, 293), Fin(34023750, 293), Fin(30636022, 293), Fin(27546419, 293),
     Fin(24733218, 293), Fin(22175778, 293), Fin(19854547, 293), Fin(17751050, 293),
     Fin(15847881, 293), Fin(14128677, 293), Fin(12578101, 293), Fin(11181808, 293),
     Fin(99264154, 292), Fin(87994683, 292), Fin(77894017, 292), Fin(68855011, 292),
     Fin(60778628, 292), Fin(53573527, 292), Fin(47155646, 292), Fin(41447790, 292),
     Fin(36379220, 292), Fin(31885252, 292), Fin(27906854, 292), Fin(24390268, 292),
     Fin(21286638, 292), Fin(18551647, 292), Fin(16145181, 292), Fin(14030997, 292),
     Fin(12176414, 292) >>

K1 == FromInt(1)
K4 == FromInt(4)
K700 == FromInt(700)
K1000 == FromInt(1000)

BesselTable(x) ==
  IF x = K1 THEN BesselI_1 ELSE IF x = K4 THEN BesselI_4 ELSE BesselI_700

\* I_n(x)
BesselI(n, x) == BesselTable(x)[n + 1]

\* GSL_LOG_DBL_MAX = 7.0978271289338397e+02: gsl_sf_bessel_In_array and
\* gsl_sf_bessel_I0 report an overflow for |x| > GSL_LOG_DBL_MAX - 1.
LogDblMax == Fin(70978271, -5)
BesselOverflows(x) == Lt(Sub(LogDblMax, One), [x EXCEPT !.m = Abs(x.m)])

\* bessel::In_array(nmin, nmax, x, &mut results): the status and the buffer
\* as the call leaves it (GSL zeroes the buffer on overflow).
In_array(nmin, nmax, x) ==
  IF BesselOverflows(x)
  THEN [status |-> "Overflow", results |-> [i \in 1..(nmax - nmin + 1) |-> Zero]]
  ELSE [status |-> "Success",
        results |-> [i \in 1..(nmax - nmin + 1) |-> BesselI(nmin + i - 1, x)]]

\* bessel::I0(x)
I0(x) == IF BesselOverflows(x) THEN Inf(1) ELSE BesselI(0, x)


\* ------------------------------------------------------------ VonMises

\* The truncation order: the length of the buffer `results` and the nmax
\* handed to In_array.
N == 100


\* VonMises::new with `concentration < 0.0` for `concentration <= 0.0`.
new_strict(location, concentration) ==
  IF IsNaN(location) \/ IsNaN(concentration) \/ Lt(concentration, Zero)
  THEN [tag |-> "Err", err |-> "BadParams",
        location |-> AngNaN, concentration |-> NaN]
  ELSE [tag |-> "Ok", err |-> "",
        location |-> location, concentration |-> concentration]

\* VonMises::new: the Result, Err(StatsError::BadParams) carrying no
\* distribution (its two fields are there to keep one record shape).
new(location, concentration) ==
  IF IsNaN(location) \/ IsNaN(concentration) \/ Le(concentration, Zero)
  THEN [tag |-> "Err", err |-> "BadParams",
        location |-> AngNaN, concentration |-> NaN]
  ELSE [tag |-> "Ok", err |-> "",
        location |-> location, concentration |-> concentration]

\* A lower bound that follows the location: location - pi.
min_around(self) == Sub(ToF64(self.location), PI)

\* Min::min
min(self) == Neg(PI)

\* Max::max
max(self) == PI

\* What a call gives its caller: a value, or the panic that ends it.
Ret(v) == [k |-> "ret", status |-> "Success", v |-> v]
Panic(status) == [k |-> "panic", status |-> status, v |-> Zero]
NoOut == [k |-> "none", status |-> "", v |-> Zero]

\* An offset of the wrong sign of the location: x + location.
OffsetSum(self, x) == AngSub(x, AngNeg(self.location))

\* An offset reduced into (-pi, pi].
OffsetReduced(self, x) ==
  LET d == AngSub(x, self.location)
      r == (d.u + HalfTurn - 1) % (2 * HalfTurn)
  IN IF d.k = "fin" THEN Ang(r - HalfTurn + 1) ELSE d

\* let d = x - self.location
Offset(self, x) == AngSub(x, self.location)

\* let mut results: [f64; 100] = [0.0; 100]
ZeroBuffer == [i \in 1..N |-> Zero]

\* The frame of a cdf call once d and the zeroed buffer exist (lines 76-77);
\* the buffer itself is kept beside the frame.
cdf_enter(self, x) ==
  [pc |-> "entered", x |-> x, d |-> Offset(self, x), nmin |-> 0, nmax |-> 0,
   status |-> "", out |-> NoOut]

\* bessel::In_array(1, 100, self.concentration, &mut results) (line 78): the
\* frame with the request and its status, and the buffer as the call left it.
cdf_provider(self, fr) ==
  LET nmin == 1
      nmax == N
      r == In_array(nmin, nmax, self.concentration)
  IN [fr |-> [fr EXCEPT !.pc = "provided", !.nmin = nmin, !.nmax = nmax,
                        !.status = r.status],
      results |-> r.results]

\* The term of the 0-based buffer index j with cos for sin.
TermCos(j, i_j, d) == Div(Mul(i_j, Cos(AngScale(j + 1, d))), FromInt(j + 1))

\* The term of the 0-based buffer index j with j for j + 1.
TermUnshifted(j, i_j, d) == Div(Mul(i_j, Sin(AngScale(j, d))), FromInt(j))

\* |(j, i_j)| i_j * ((j + 1) as f64 * d).sin() / (j + 1) as f64
Term(j, i_j, d) == Div(Mul(i_j, Sin(AngScale(j + 1, d))), FromInt(j + 1))

\* results.into_iter().enumerate().map(..).sum(): the fold of + over the
\* terms of the buffer elements in order, from 0.0 (a NaN absorbs the rest).
SumTerms(results, d) ==
  LET RECURSIVE fold(_, _)
      fold(j, acc) ==
        IF j = Len(results) \/ IsNaN(acc) THEN acc
        ELSE fold(j + 1, Add(acc, Term(j, results[j + 1], d)))
  IN fold(0, Zero)

\* 0.5 + (d + (2.0 * sum / bessel::I0(self.concentration))) / (2.0 * PI)
Combine(self, d, sum) ==
  Add(Half, Div(Add(ToF64(d), Div(Mul(Two, sum), I0(self.concentration))),
                Mul(Two, PI)))

\* The match on the provider's status, the sum and the result (lines 79-87).
cdf_finish(self, fr, results) ==
  IF fr.status # "Success"
  THEN [fr EXCEPT !.pc = "done", !.out = Panic(fr.status)]
  ELSE [fr EXCEPT !.pc = "done",
                  !.out = Ret(Combine(self, fr.d, SumTerms(results, fr.d)))]

\* Univariate::cdf, run to its end: the frame the call ends with.
cdf(self, x) ==
  LET p == cdf_provider(self, cdf_enter(self, x))
  IN cdf_finish(self, p.fr, p.results)

\* ------------------------------------------------------- the inputs

\* The query points reach XMax lattice steps either side of 0.
XMax == 10
\* The execution contexts that call into one distribution concurrently.
NCtx == 2

Lattice == {Ang(u) : u \in -XMax..XMax}
Points == Lattice \cup {AngInf(1), AngNaN}
Locations == {AngNaN, AngInf(1), Ang(0), Ang(1)}
Concentrations == {NaN, Inf(-1), Neg(One), Zero, K1, K4, K700, K1000, Inf(1)}
Contexts == 1..NCtx

\* Every distribution a call of new can return.
Distributions ==
  {r \in {new(l, c) : l \in Locations, c \in Concentrations} : r.tag = "Ok"}

\* cdf over the distributions and the query points, evaluated once (the
\* merge with the empty function makes the table explicit).
CdfTable == [c \in Distributions \X Points |-> cdf(c[1], c[2])] @@ <<>>

\* ---------------------------------------------------- the state machine

VARIABLES
  args,     \* the arguments of the latest call of new, <<>> before the first
  vm,       \* what that call returned
  frames,   \* per context, the frame of the cdf call it is in
  bufs,     \* per context, the buffer `results` of that call
  log       \* the latest completed calls on distributions, oldest first

vars == <<args, vm, frames, bufs, log>>

NoVm == [tag |-> "None", err |-> "", location |-> AngNaN, concentration |-> NaN]
Idle ==
  [pc |-> "idle", x |-> AngNaN, d |-> AngNaN, nmin |-> 0, nmax |-> 0,
   status |-> "", out |-> NoOut]

\* A completed call: the distribution, the query point, the request made to
\* the provider with its status, and what the caller got.
CallOfCdf(self, fr) ==
  [op |-> "cdf", self |-> self, x |-> fr.x, nmin |-> fr.nmin,
   nmax |-> fr.nmax, status |-> fr.status, out |-> fr.out]
CallOfBound(op, self, v) ==
  [op |-> op, self |-> self, x |-> AngNaN, nmin |-> 0, nmax |-> 0,
   status |-> "", out |-> Ret(v)]

\* The log keeps the latest `depth` calls.
Remember(l, rec, depth) ==
  IF Len(l) < depth THEN Append(l, rec) ELSE Append(Tail(l), rec)

\* The buffer a context's call uses: `results` is a local of the call.
BufShared(c) == 1
BufOf(c) == c

AllIdle == \A c \in Contexts : frames[c].pc = "idle"

Init ==
  /\ args = <<>>
  /\ vm = NoVm
  /\ frames = [c \in Contexts |-> Idle]
  /\ bufs = [c \in Contexts |-> <<>>]
  /\ log = <<>>

\* let vm = VonMises::new(location, concentration)
New(locations, concentrations) ==
  /\ AllIdle
  /\ \E l \in locations, c \in concentrations :
       /\ args' = <<l, c>>
       /\ vm' = new(l, c)
  /\ UNCHANGED <<frames, bufs, log>>

\* vm.cdf(x), from call to return with no other call in between.
Cdf(points, depth) ==
  /\ vm.tag = "Ok"
  /\ AllIdle
  /\ \E x \in points :
       log' = Remember(log, CallOfCdf(vm, CdfTable[<<vm, x>>]), depth)
  /\ UNCHANGED <<args, vm, frames, bufs>>

\* vm.min()
Min(depth) ==
  /\ vm.tag = "Ok"
  /\ log' = Remember(log, CallOfBound("min", vm, min(vm)), depth)
  /\ UNCHANGED <<args, vm, frames, bufs>>

\* vm.max()
Max(depth) ==
  /\ vm.tag = "Ok"
  /\ log' = Remember(log, CallOfBound("max", vm, max(vm)), depth)
  /\ UNCHANGED <<args, vm, frames, bufs>>

\* Context c calls vm.cdf(x): lines 76-77.
Enter(c, points) ==
  /\ vm.tag = "Ok"
  /\ frames[c].pc = "idle"
  /\ \E x \in points : frames' = [frames EXCEPT ![c] = cdf_enter(vm, x)]
  /\ bufs' = [bufs EXCEPT ![BufOf(c)] = ZeroBuffer]
  /\ UNCHANGED <<args, vm, log>>

\* Context c's call of the provider: line 78.
Provide(c) ==
  /\ frames[c].pc = "entered"
  /\ LET p == cdf_provider(vm, frames[c])
     IN /\ frames' = [frames EXCEPT ![c] = p.fr]
        /\ bufs' = [bufs EXCEPT ![BufOf(c)] = p.results]
  /\ UNCHANGED <<args, vm, log>>

\* cdf_finish, read from CdfTable when the frame and the buffer are those an
\* undisturbed call has at this point.
Finished(self, fr, results) ==
  LET p == cdf_provider(self, cdf_enter(self, fr.x))
  IN IF fr = p.fr /\ results = p.results
     THEN CdfTable[<<self, fr.x>>]
     ELSE cdf_finish(self, fr, results)

\* Context c's match, sum and result: lines 79-87.
Finish(c) ==
  /\ frames[c].pc = "provided"
  /\ frames' = [frames EXCEPT ![c] = Finished(vm, frames[c], bufs[BufOf(c)])]
  /\ UNCHANGED <<args, vm, bufs, log>>

\* Context c's call returns (or unwinds) and its frame is gone.
Leave(c, depth) ==
  /\ frames[c].pc = "done"
  /\ log' = Remember(log, CallOfCdf(vm, frames[c]), depth)
  /\ frames' = [frames EXCEPT ![c] = Idle]
  /\ bufs' = [bufs EXCEPT ![BufOf(c)] = <<>>]
  /\ UNCHANGED <<args, vm>>

\* One caller; every input, the non-finite ones included; the latest call.
Next ==
  \/ New(Locations, Concentrations)
  \/ Cdf(Points, 1)
  \/ Min(1)
  \/ Max(1)

Spec == Init /\ [][Next]_vars

\* One caller; the latest two calls on distributions of finite and infinite
\* location.
PairLocations == {Ang(1), AngInf(1)}
PairConcentrations == {K4, K700}
PairPoints == Lattice \cup {AngInf(1)}

NextPair ==
  \/ New(PairLocations, PairConcentrations)
  \/ Cdf(PairPoints, 2)

SpecPair == Init /\ [][NextPair]_vars

\* One caller; finite inputs only; the latest two calls, on distributions of
\* two locations, one concentration beyond what the provider serves.
FiniteLocations == {Ang(0), Ang(1)}
FiniteConcentrations == {K4, K1000}

NextFinite ==
  \/ New(FiniteLocations, FiniteConcentrations)
  \/ Cdf(Lattice, 2)

SpecFinite == Init /\ [][NextFinite]_vars

\* NCtx callers of one distribution, their cdf calls interleaved step by step.
ConcLocations == {Ang(0), Ang(1)}
ConcConcentrations == {K4, K1000}
ConcPoints == {Ang(-2), Ang(3)}

NextConc ==
  \/ New(ConcLocations, ConcConcentrations)
  \/ Min(1)
  \/ Max(1)
  \/ \E c \in Contexts :
       \/ Enter(c, ConcPoints)
       \/ Provide(c)
       \/ Finish(c)
       \/ Leave(c, 1)

SpecConc == Init /\ [][NextConc]_vars

\* --------------------------------------------------------------- claims

Calls == {log[i] : i \in DOMAIN log}
CdfCalls == {rec \in Calls : rec.op = "cdf"}

\* 1e-6, the tolerance of the tests (lines 105-128).
Tol == Fin(10000000, -13)
AbsF(a) == [a EXCEPT !.m = Abs(a.m)]
CloseTo(a, b) == IsFinite(a) /\ IsFinite(b) /\ Le(AbsF(Sub(a, b)), Tol)

\* The concentrations the contract rejects, read off the value itself.
NotPositive(c) == c.k = "nan" \/ (c.k = "inf" /\ c.m < 0) \/ (c.k = "fin" /\ c.m <= 0)

\* C1: new(location, concentration) returns Err(BadParams), and no
\* distribution, exactly when location is NaN, concentration is NaN or
\* concentration <= 0; otherwise it returns the distribution of exactly these
\* two arguments.  (NaN, 1), (0, NaN), (0, 0) and (0, -1) are rejected.
C1_NewRejectsExactlyBadParams ==
  args # <<>> =>
    LET l == args[1]
        c == args[2]
        bad == l.k = "nan" \/ NotPositive(c)
    IN /\ bad <=> vm.tag = "Err"
       /\ vm.tag = "Err" => vm = [tag |-> "Err", err |-> "BadParams",
                                  location |-> AngNaN, concentration |-> NaN]
       /\ ~bad => vm = [tag |-> "Ok", err |-> "", location |-> l,
                        concentration |-> c]
       /\ args \in {<<AngNaN, K1>>, <<Ang(0), NaN>>, <<Ang(0), Zero>>,
                    <<Ang(0), Neg(One)>>} => vm.tag = "Err"

\* new(0.0, 0.0) was called and rejected.
C1_Witness == args = <<Ang(0), Zero>> /\ vm.tag = "Err" /\ vm.err = "BadParams"

\* C2: when the provider call of cdf returns a status other than success, the
\* caller of cdf gets an error result: no panic, no value computed from
\* substituted Bessel terms.
C2_ProviderFailureIsAnErrorResult ==
  \A rec \in CdfCalls : rec.status # "Success" => rec.out.k = "err"

\* -pi and pi, written out.
MinusPi == Fin(-31415927, -7)
PlusPi == Fin(31415927, -7)

\* C7: min() returns -pi and max() returns pi whatever the location and the
\* concentration of the distribution, and min() < max().
C7_BoundsAreMinusPiAndPi ==
  \A rec \in Calls :
    /\ rec.op = "min" => rec.out = Ret(MinusPi) /\ Lt(rec.out.v, max(rec.self))
    /\ rec.op = "max" => rec.out = Ret(PlusPi) /\ Lt(min(rec.self), rec.out.v)

\* min() was called on a distribution whose location is not 0, and returned
\* -pi.
C7_Witness ==
  \E rec \in Calls :
    /\ rec.op = "min" /\ rec.self.location = Ang(1)
    /\ rec.self.concentration = K700 /\ rec.out = Ret(MinusPi)

\* C6: for every valid finite concentration, however large, the cdf call gets
\* its Bessel values and returns a value: a larger concentration alone makes
\* no evaluation fail or overflow.
C6_LargeConcentrationEvaluates ==
  \A rec \in CdfCalls :
    IsFinite(rec.self.concentration) =>
      /\ rec.status = "Success"
      /\ rec.out.k = "ret"
      /\ rec.x.k = "fin" /\ rec.self.location.k = "fin" => IsFinite(rec.out.v)

\* C3, as stated: for every distribution new returns and every successful
\* provider call, cdf(location) = 0.5.
C3_CdfAtLocationIsHalf ==
  \A rec \in CdfCalls :
    rec.status = "Success" /\ rec.x = rec.self.location => rec.out = Ret(Half)

\* C3, amended: for every distribution of finite location and every
\* successful provider call, cdf(location) = 0.5 exactly, whatever the
\* concentration.
C3_CdfAtFiniteLocationIsHalf ==
  \A rec \in CdfCalls :
    /\ rec.status = "Success"
    /\ rec.self.location.k = "fin"
    /\ rec.x = rec.self.location
    => rec.out = Ret(Half)

\* cdf(location) returned 0.5 for a location other than 0 and the largest
\* concentration the provider serves.
C3_Witness ==
  \E rec \in CdfCalls :
    /\ rec.self.location = Ang(1) /\ rec.self.concentration = K700
    /\ rec.x = Ang(1) /\ rec.status = "Success" /\ rec.out = Ret(Half)

\* The formula of the CDF, by order: S is the sum over j = 1..100, in this
\* order, of I_j(kappa) * sin(j * d) / j.
SeriesSum(kappa, d) ==
  LET RECURSIVE upto(_, _)
      upto(j, acc) ==
        IF j > 100 \/ IsNaN(acc) THEN acc
        ELSE upto(j + 1, Add(acc, Div(Mul(BesselI(j, kappa), Sin(AngScale(j, d))),
                                      FromInt(j))))
  IN upto(1, Zero)

\* 0.5 + (d + 2 * S / I_0(kappa)) / (2 * pi), with d = x - mu.
CdfFormula(mu, kappa, x) ==
  LET d == AngSub(x, mu)
  IN Add(Half, Div(Add(ToF64(d), Div(Mul(Two, SeriesSum(kappa, d)),
                                     BesselI(0, kappa))),
                   Mul(Two, PI)))

\* The formula over the distributions the provider serves, evaluated once.
FormulaTable ==
  [c \in {v \in Distributions : ~BesselOverflows(v.concentration)} \X Points |->
     CdfFormula(c[1].location, c[1].concentration, c[2])] @@ <<>>

\* C9: on provider success the provider was asked for the orders 1 to 100 and
\* cdf(x) is 0.5 + (d + 2 * S / I_0(kappa)) / (2 * pi), d = x - location, S
\* the sum over the orders j = 1..100 of I_j(kappa) * sin(j * d) / j.
C9_CdfIsTheSeriesFormula ==
  \A rec \in CdfCalls :
    rec.status = "Success" =>
      /\ rec.nmin = 1
      /\ rec.nmax = 100
      /\ rec.out = Ret(FormulaTable[<<rec.self, rec.x>>])

\* A successful cdf call away from the location, with a value other than 0.5.
C9_Witness ==
  \E rec \in CdfCalls :
    /\ rec.self.location = Ang(1) /\ rec.self.concentration = K4
    /\ rec.x = Ang(3) /\ rec.status = "Success"
    /\ IsFinite(rec.out.v) /\ Lt(Half, rec.out.v)

\* The latest two calls, when both are cdf calls.
TwoCdfCalls == Len(log) = 2 /\ log[1].op = "cdf" /\ log[2].op = "cdf"
BothReturned == log[1].out.k = "ret" /\ log[2].out.k = "ret"

\* C4, as stated: for every distribution and every t in (0, pi], the values
\* cdf(mu - t) and cdf(mu + t) sum to 1 within the tolerance.
C4_MirrorPointsSumToOne ==
  TwoCdfCalls /\ BothReturned /\ log[1].self = log[2].self =>
    \A t \in 1..HalfTurn :
      /\ log[1].x = AngSub(log[1].self.location, Ang(t))
      /\ log[2].x = AngAdd(log[2].self.location, Ang(t))
      => CloseTo(Add(log[1].out.v, log[2].out.v), One)

\* C4, amended: for every distribution and every t in (0, pi], the values of
\* cdf at two points whose offsets from the location are exactly -t and t
\* sum to 1 within the tolerance.
C4_MirrorOffsetsSumToOne ==
  TwoCdfCalls /\ BothReturned /\ log[1].self = log[2].self =>
    \A t \in 1..HalfTurn :
      /\ AngSub(log[1].x, log[1].self.location) = Ang(-t)
      /\ AngSub(log[2].x, log[2].self.location) = Ang(t)
      => CloseTo(Add(log[1].out.v, log[2].out.v), One)

\* cdf(mu - 3 pi/8) and cdf(mu + 3 pi/8) of the distribution (pi/8, 700)
\* were computed, and differ.
C4_Witness ==
  /\ TwoCdfCalls /\ BothReturned /\ log[1].self = log[2].self
  /\ log[1].self.location = Ang(1) /\ log[1].self.concentration = K700
  /\ log[1].x = Ang(-2) /\ log[2].x = Ang(4)
  /\ Lt(log[1].out.v, log[2].out.v)

\* C5: for every distribution and x1 < x2 both in [mu - pi, mu + pi],
\* cdf(x1) <= cdf(x2).
C5_MonotoneOverOnePeriod ==
  TwoCdfCalls /\ BothReturned /\ log[1].self = log[2].self =>
    LET d1 == AngSub(log[1].x, log[1].self.location)
        d2 == AngSub(log[2].x, log[2].self.location)
    IN /\ d1.k = "fin" /\ d2.k = "fin"
       /\ -HalfTurn <= d1.u /\ d1.u < d2.u /\ d2.u <= HalfTurn
       => Le(log[1].out.v, log[2].out.v)

Valid(v) ==
  /\ v.location.k # "nan"
  /\ v.concentration.k # "nan"
  /\ v.concentration.m > 0

\* Every cdf call that reached its result, in a context or in the log, has
\* the result the same call has when no other call runs.
ResultsAsAlone ==
  /\ \A c \in Contexts :
       frames[c].pc = "done" => frames[c].out = CdfTable[<<vm, frames[c].x>>].out
  /\ \A rec \in CdfCalls : rec.out = CdfTable[<<rec.self, rec.x>>].out

\* A step of a cdf, min or max call leaves the distribution as it was.
CallsKeepTheDistribution ==
  frames' # frames \/ log' # log => vm' = vm /\ args' = args

\* C8: under every interleaving of the cdf, min and max calls of several
\* contexts on one distribution, its location and concentration stay what
\* they were and valid, and every cdf(x) returns what it returns alone.
C8_CallsAreIsolated ==
  /\ [](vm.tag = "Ok" => Valid(vm))
  /\ [](\A rec \in Calls : Valid(rec.self))
  /\ []ResultsAsAlone
  /\ [][CallsKeepTheDistribution]_vars

\* Two contexts are inside cdf at once, at different points, one past its
\* provider call and one with its result.
C8_Witness ==
  /\ vm.tag = "Ok" /\ vm.concentration = K4
  /\ frames[1].pc = "provided" /\ frames[2].pc = "done"
  /\ frames[1].x # frames[2].x
  /\ frames[2].out.k = "ret"
====
